---- MODULE Spec2Model ----
(***************************************************************************)
(* gocurl: the load generator (internal/app/app.go), the metrics collector *)
(* (internal/metrics/collector.go) and the timing capture it calls         *)
(* (internal/client/http.go), as a state machine.                          *)
(*                                                                         *)
(* Goroutines are processes: 0 is the goroutine that calls App.Run, the    *)
(* others are the workers of runLoad (specification Spec) or independent   *)
(* callers of a shared Collector (specification CollectorSpec).            *)
(* Durations are in microseconds, wall-clock instants are ticks of `now`.  *)
(***************************************************************************)
EXTENDS Integers, Sequences, FiniteSets, TLC

\* ---------------------------------------------------------------- bounds
MaxURLs == 2
MaxRequests == 2
MaxConcurrency == 2
MaxJobs == 4
MaxClients == 2
MaxOps == 4
\* longest list handed to a function that is applied on its own
MaxLen == 3
\* reads of a response body, the last one ending it
MaxReads == 3
\* calls an independent caller makes on a StreamingReader
MaxCalls == 3

\* ------------------------------------------------------------- constants
\* time.Millisecond in the model's duration unit (microseconds)
Millisecond == 1000
\* width of one latency histogram bucket, in milliseconds
BucketWidthMs == 10
\* sample counts from which the extended percentiles are computed
P999MinSamples == 1000
P9999MinSamples == 10000

\* ----------------------------------------------------------------- values
Main == 0
\* the value of Collector.mu when no goroutine holds it
Unlocked == 0 - 1
Nil == [nil |-> TRUE]
NoJob == [url |-> "", id |-> 0 - 1, pos |-> 0]
ZeroTime == 0

\* URLs a configuration may list; the second one has no protocol scheme
URLSet == {"http://a", ":bad"}

\* http.NewRequest(method, url, body) succeeds: the URL parses
NewRequestOK(url) == url # ":bad"

RECURSIVE SeqsUpTo(_, _)
SeqsUpTo(S, n) ==
  IF n = 0 THEN {<<>>}
  ELSE LET shorter == SeqsUpTo(S, n - 1)
       IN  shorter \cup {Append(s, x) : s \in {q \in shorter : Len(q) = n - 1}, x \in S}

Configs ==
  {c \in [URLs : SeqsUpTo(URLSet, MaxURLs),
          Requests : 0..MaxRequests,
          Concurrency : (0 - 1)..MaxConcurrency] :
     c.Requests * Len(c.URLs) <= MaxJobs}

NoConfig == [URLs |-> <<>>, Requests |-> 0, Concurrency |-> 0, none |-> TRUE]

\* what client.Do and the body read can turn a well-formed request into:
\* the fields of the TimingBreakdown that Calculate reads
DoOutcomes ==
  {[Total |-> 12 * Millisecond, StatusCode |-> 200, ResponseSize |-> 2, Error |-> ""],
   [Total |-> 3 * Millisecond, StatusCode |-> 0, ResponseSize |-> 0, Error |-> "dial tcp: no such host"]}

\* the samples a direct caller of the Collector records
ClientSamples ==
  {[Total |-> 25 * Millisecond, StatusCode |-> 500, ResponseSize |-> 1, Error |-> ""],
   [Total |-> 3 * Millisecond, StatusCode |-> 0, ResponseSize |-> 0, Error |-> "dial tcp: no such host"]}

\* a *TimingBreakdown: the pointer (allocating goroutine, serial number) and
\* the fields behind it
Timing(ptr, o) ==
  [ptr |-> ptr, Total |-> o.Total, StatusCode |-> o.StatusCode,
   ResponseSize |-> o.ResponseSize, Error |-> o.Error]

\* ------------------------------------------------- Calculate, as a function
\* the sum of s[lo..hi], by halves
RECURSIVE SumRange(_, _, _)
SumRange(s, lo, hi) ==
  IF lo > hi THEN 0
  ELSE IF lo = hi THEN s[lo]
  ELSE LET mid == (lo + hi) \div 2
       IN  SumRange(s, lo, mid) + SumRange(s, mid + 1, hi)

SumSeq(s) == SumRange(s, 1, Len(s))

\* sort.Slice with the comparison latencies[i] < latencies[j]: the k-th element
\* of the result is the value v with fewer than k elements below it and at
\* least k elements not above it
\* the list left in the order it was recorded in
SortAscSkipped(s) == s

SortAsc(s) ==
  LET n == Len(s)
      vals == {s[i] : i \in 1..n}
      counts == {[v \in vals |-> Cardinality({i \in 1..n : s[i] <= v})]}
  IN  CHOOSE sorted \in
        {[k \in 1..n |->
            CHOOSE v \in vals : k <= upTo[v] /\ \A u \in vals : u < v => upTo[u] < k] :
         upTo \in counts} : TRUE

\* a percentile that takes the value at the lower index, without interpolating
percentileLower(sorted, pNum, pDen) ==
  LET n == Len(sorted)
      lower == ((pNum * (n - 1)) \div (100 * pDen)) + 1
  IN  IF n = 0 THEN 0
      ELSE IF pNum <= 0 THEN sorted[1]
      ELSE IF pNum >= 100 * pDen THEN sorted[n]
      ELSE sorted[lower]

\* percentile(sorted, p) with p = pNum / pDen percent, in exact arithmetic
percentile(sorted, pNum, pDen) ==
  LET n == Len(sorted)
      idxNum == pNum * (n - 1)
      idxDen == 100 * pDen
      lower == (idxNum \div idxDen) + 1
      upper == lower + 1
      w == idxNum % idxDen
  IN  IF n = 0 THEN 0
      ELSE IF pNum <= 0 THEN sorted[1]
      ELSE IF pNum >= 100 * pDen THEN sorted[n]
      ELSE IF upper > n THEN sorted[n]
      ELSE (sorted[lower] * (idxDen - w) + sorted[upper] * w) \div idxDen

\* a histogram that rounds the milliseconds to the nearest bucket
createHistogramNearest(latencies) ==
  LET Bucket(l) == ((l \div Millisecond) + (BucketWidthMs \div 2)) \div BucketWidthMs
  IN  [b \in {Bucket(latencies[i]) : i \in 1..Len(latencies)} |->
         Cardinality({i \in 1..Len(latencies) : Bucket(latencies[i]) = b})]

createHistogram(latencies) ==
  LET Bucket(l) == (l \div Millisecond) \div BucketWidthMs
  IN  [b \in {Bucket(latencies[i]) : i \in 1..Len(latencies)} |->
         Cardinality({i \in 1..Len(latencies) : Bucket(latencies[i]) = b})]

\* a float64 quotient, kept as numerator and denominator (den = 0: +Inf or NaN)
Ratio(num, den) == [num |-> num, den |-> den]

\* &Stats{}: every field at its zero value, both maps nil
ZeroStats ==
  [TotalRequests |-> 0, SuccessfulRequests |-> 0, FailedRequests |-> 0,
   Duration |-> 0, RequestsPerSecond |-> Ratio(0, 1),
   MinLatency |-> 0, MaxLatency |-> 0, MeanLatency |-> 0,
   P50 |-> 0, P90 |-> 0, P95 |-> 0, P99 |-> 0, P999 |-> 0, P9999 |-> 0,
   StatusCodes |-> <<>>, ErrorRate |-> Ratio(0, 1), TotalBytes |-> 0,
   BytesPerSecond |-> Ratio(0, 1), Histogram |-> <<>>]

\* a sample that counts as successful only with a status code below 400
SucceededByStatus(t) == t.Error = "" /\ t.StatusCode < 400

\* if t.Error == "": the sample counts as successful
Succeeded(t) == t.Error = ""

\* an extended percentile computed only above the sample count, not at it
ExtendedPercentileAbove(latencies, minSamples, pNum, pDen) ==
  IF Len(latencies) > minSamples THEN percentile(latencies, pNum, pDen) ELSE 0

\* if len(latencies) >= minSamples { stats.P... = percentile(latencies, p) }
ExtendedPercentile(latencies, minSamples, pNum, pDen) ==
  IF Len(latencies) >= minSamples THEN percentile(latencies, pNum, pDen) ELSE 0

\* the Stats that Calculate fills in from the samples and their sorted latencies
StatsFrom(ts, latencies, start, end) ==
  LET n == Len(ts)
      ok == {i \in 1..n : Succeeded(ts[i])}
      totalBytes == SumSeq([i \in 1..n |-> ts[i].ResponseSize])
      duration == end - start
  IN  [TotalRequests |-> n,
       SuccessfulRequests |-> Cardinality(ok),
       FailedRequests |-> n - Cardinality(ok),
       Duration |-> duration,
       RequestsPerSecond |-> Ratio(n, duration),
       MinLatency |-> latencies[1],
       MaxLatency |-> latencies[n],
       MeanLatency |-> SumSeq(latencies) \div n,
       P50 |-> percentile(latencies, 50, 1),
       P90 |-> percentile(latencies, 90, 1),
       P95 |-> percentile(latencies, 95, 1),
       P99 |-> percentile(latencies, 99, 1),
       P999 |-> ExtendedPercentile(latencies, P999MinSamples, 999, 10),
       P9999 |-> ExtendedPercentile(latencies, P9999MinSamples, 9999, 100),
       StatusCodes |-> [c \in {ts[i].StatusCode : i \in ok} |->
                          Cardinality({i \in ok : ts[i].StatusCode = c})],
       ErrorRate |-> Ratio(n - Cardinality(ok), n),
       TotalBytes |-> totalBytes,
       BytesPerSecond |-> Ratio(totalBytes, duration),
       Histogram |-> createHistogram(latencies)]

\* the body of Calculate after the empty check, for a non-empty sample list:
\* the latencies are collected and sorted once, then the Stats are filled in
ComputeStats(ts, start, end) ==
  CHOOSE st \in
    {StatsFrom(ts, latencies, start, end) :
       latencies \in {SortAsc(collected) :
                        collected \in {[i \in 1..Len(ts) |-> ts[i].Total]}}} : TRUE

\* what a call of Calculate produces: a Stats, or a run-time panic
Returned(s) == [panic |-> FALSE, stats |-> s]
Panicked == [panic |-> TRUE, stats |-> ZeroStats]
NoResult == [panic |-> FALSE, stats |-> ZeroStats, none |-> TRUE]

\* Calculate without its empty check: latencies[0] is out of range
CalculateStatsUnchecked(ts, start, end) ==
  IF Len(ts) = 0 THEN Panicked
  ELSE Returned(ComputeStats(ts, start, end))

\* Calculate between Lock and the deferred Unlock
CalculateStats(ts, start, end) ==
  IF Len(ts) = 0 THEN Returned(ZeroStats)
  ELSE Returned(ComputeStats(ts, start, end))

\* ------------------------------------------- the streaming analyzer's functions
Second == 1000 * Millisecond

\* a non-negative float64 that is a square root, kept as the fraction under
\* the root (the standard deviation and the coefficient of variation)
Sqrt(num, den) == [sqNum |-> num, sqDen |-> den]

\* x < a/b for such a value and positive a, b
SqrtLess(x, a, b) == x.sqNum * b * b < a * a * x.sqDen

\* &StreamMetrics{ChunkTimings: make([]ChunkTiming, 0), Protocol: protocol}
NewStreamMetrics ==
  [ChunkTimings |-> <<>>, BytesPerSecond |-> Ratio(0, 1), FirstChunkTime |-> 0,
   LastChunkTime |-> 0, TotalChunks |-> 0, TotalBytes |-> 0, AverageChunkSize |-> 0,
   StreamingInfo |-> Nil, BufferingAnalysis |-> Nil, Stalls |-> <<>>]

\* the delays between consecutive chunks, in whole milliseconds
InterChunkDelays(chunks) ==
  [i \in 1..(Len(chunks) - 1) |->
     (chunks[i + 1].ElapsedTime - chunks[i].ElapsedTime) \div Millisecond]

\* a mean over one value too many
calculateMeanOffByOne(values) ==
  IF Len(values) = 0 THEN Ratio(0, 1) ELSE Ratio(SumSeq(values), Len(values) + 1)

calculateMean(values) ==
  IF Len(values) = 0 THEN Ratio(0, 1) ELSE Ratio(SumSeq(values), Len(values))

\* math.Sqrt(sum of (v - mean)^2 / len), with mean the fraction num/den
calculateStdDev(values, mean) ==
  IF Len(values) = 0 THEN Sqrt(0, 1)
  ELSE Sqrt(SumSeq([i \in 1..Len(values) |->
                      (values[i] * mean.den - mean.num) * (values[i] * mean.den - mean.num)]),
            mean.den * mean.den * Len(values))

\* a pattern decided by the coefficient of variation alone
detectChunkPatternNoStall(cv, delays) ==
  IF SqrtLess(cv, 3, 10) THEN "steady"
  ELSE IF SqrtLess(cv, 7, 10) THEN "moderate"
  ELSE "burst"

\* stallRatio > 0.3 is false when there are no delays (0/0 is NaN)
detectChunkPattern(cv, delays) ==
  LET longDelays == Cardinality({i \in 1..Len(delays) : delays[i] > 500})
  IN  IF SqrtLess(cv, 3, 10) THEN "steady"
      ELSE IF SqrtLess(cv, 7, 10) THEN "moderate"
      ELSE IF Len(delays) > 0 /\ longDelays * 10 > 3 * Len(delays) THEN "stalled"
      ELSE "burst"

\* one signal is enough
detectBufferingAnySignal(analysis, m) ==
  LET signals ==
        (IF m.TotalChunks = 1 THEN 2 ELSE 0)
        + (IF analysis.TimeToFirstByte > Second /\ analysis.ChunkPattern = "burst" THEN 1 ELSE 0)
        + (IF analysis.FirstChunkGap > Second THEN 1 ELSE 0)
        + (IF SqrtLess(analysis.ChunkTimingCV, 3, 10)
                /\ analysis.TimeToFirstByte > 500 * Millisecond THEN 1 ELSE 0)
  IN  signals >= 1

\* a single chunk counted as one signal like the others
detectBufferingWeakSingle(analysis, m) ==
  LET signals ==
        (IF m.TotalChunks = 1 THEN 1 ELSE 0)
        + (IF analysis.TimeToFirstByte > Second /\ analysis.ChunkPattern = "burst" THEN 1 ELSE 0)
        + (IF analysis.FirstChunkGap > Second THEN 1 ELSE 0)
        + (IF SqrtLess(analysis.ChunkTimingCV, 3, 10)
                /\ analysis.TimeToFirstByte > 500 * Millisecond THEN 1 ELSE 0)
  IN  signals >= 2

detectBuffering(analysis, m) ==
  LET signals ==
        (IF m.TotalChunks = 1 THEN 2 ELSE 0)
        + (IF analysis.TimeToFirstByte > Second /\ analysis.ChunkPattern = "burst" THEN 1 ELSE 0)
        + (IF analysis.FirstChunkGap > Second THEN 1 ELSE 0)
        + (IF SqrtLess(analysis.ChunkTimingCV, 3, 10)
                /\ analysis.TimeToFirstByte > 500 * Millisecond THEN 1 ELSE 0)
  IN  signals >= 2

\* a score that ignores how clear the pattern is
calculateConfidenceBySizeOnly(analysis, m) ==
  IF m.TotalChunks >= 10 THEN 8
  ELSE IF m.TotalChunks >= 5 THEN 7
  ELSE IF m.TotalChunks >= 2 THEN 6
  ELSE 5

\* the confidence score, in tenths
calculateConfidence(analysis, m) ==
  LET chunks == IF m.TotalChunks >= 10 THEN 3
                ELSE IF m.TotalChunks >= 5 THEN 2
                ELSE IF m.TotalChunks >= 2 THEN 1
                ELSE 0
      clear == IF analysis.ChunkPattern = "steady" \/ analysis.BufferingDetected THEN 2 ELSE 0
      confidence == 5 + chunks + clear
  IN  IF confidence > 10 THEN 10 ELSE confidence

\* &BufferingAnalysis{TimeToFirstByte: metrics.FirstChunkTime, MinDelay: -1, MaxDelay: -1}
NewBufferingAnalysis(m) ==
  [TimeToFirstByte |-> m.FirstChunkTime, FirstChunkGap |-> 0, ChunkPattern |-> "",
   StallCount |-> 0, TotalStallTime |-> 0, ChunkTimingCV |-> Sqrt(0, 1),
   BufferingDetected |-> FALSE, MeanDelay |-> Ratio(0, 1), StdDevDelay |-> Sqrt(0, 1),
   MinDelay |-> 0 - 1, MaxDelay |-> 0 - 1, Confidence |-> 0]

\* an analysis that goes on with fewer than two chunks
AnalyzeBufferingNoGuard(m) ==
  LET analysis == NewBufferingAnalysis(m)
      delays == InterChunkDelays(m.ChunkTimings)
      withPattern == [analysis EXCEPT !.ChunkPattern = detectChunkPattern(analysis.ChunkTimingCV, delays)]
      withBuffering == [withPattern EXCEPT !.BufferingDetected = detectBuffering(withPattern, m)]
  IN  [withBuffering EXCEPT !.Confidence = calculateConfidence(withBuffering, m)]

AnalyzeBuffering(m) ==
  LET chunks == m.ChunkTimings
      analysis == NewBufferingAnalysis(m)
      delays == InterChunkDelays(chunks)
      mean == calculateMean(delays)
      stdDev == calculateStdDev(delays, mean)
      \* stdDev / mean; stdDev.sqDen is mean.den^2 * len(delays), so mean.den^2 cancels
      cv == IF mean.num > 0
            THEN Sqrt(stdDev.sqNum, Len(delays) * mean.num * mean.num)
            ELSE Sqrt(0, 1)
      measured ==
        [analysis EXCEPT
           !.FirstChunkGap = chunks[2].ElapsedTime - chunks[1].ElapsedTime,
           !.MeanDelay = mean,
           !.StdDevDelay = stdDev,
           !.MinDelay = CHOOSE d \in {delays[i] : i \in 1..Len(delays)} :
                          \A i \in 1..Len(delays) : d <= delays[i],
           !.MaxDelay = CHOOSE d \in {delays[i] : i \in 1..Len(delays)} :
                          \A i \in 1..Len(delays) : d >= delays[i],
           !.ChunkTimingCV = cv]
      withPattern == [measured EXCEPT !.ChunkPattern = detectChunkPattern(cv, delays)]
      withBuffering == [withPattern EXCEPT !.BufferingDetected = detectBuffering(withPattern, m)]
  IN  IF Len(chunks) < 2
      THEN [analysis EXCEPT !.ChunkPattern = "insufficient_data"]
      ELSE [withBuffering EXCEPT !.Confidence = calculateConfidence(withBuffering, m)]

\* a Position that counts the chunk the stall follows
DetectStallsInclusive(m, threshold) ==
  LET chunks == m.ChunkTimings
      Pair(i) ==
        [StartTime |-> chunks[i].ElapsedTime,
         EndTime |-> chunks[i + 1].ElapsedTime,
         Duration |-> chunks[i + 1].ElapsedTime - chunks[i].ElapsedTime,
         Position |-> SumSeq([k \in 1..i |-> chunks[k].Size])]
      IsStall(st) == st.Duration > threshold
  IN  IF Len(chunks) < 2 THEN <<>>
      ELSE SelectSeq([i \in 1..(Len(chunks) - 1) |-> Pair(i)], IsStall)

\* the stalls in timeline order; nil and the empty list are both <<>>
DetectStalls(m, threshold) ==
  LET chunks == m.ChunkTimings
      Pair(i) ==
        [StartTime |-> chunks[i].ElapsedTime,
         EndTime |-> chunks[i + 1].ElapsedTime,
         Duration |-> chunks[i + 1].ElapsedTime - chunks[i].ElapsedTime,
         Position |-> SumSeq([k \in 1..(i - 1) |-> chunks[k].Size])]
      IsStall(st) == st.Duration > threshold
  IN  IF Len(chunks) < 2 THEN <<>>
      ELSE SelectSeq([i \in 1..(Len(chunks) - 1) |-> Pair(i)], IsStall)

\* ------------------------------------------------------------------ state
VARIABLES
  config,     \* App.config: URLs, Requests, Concurrency
  pc,         \* where each goroutine is
  mu,         \* Collector.mu: Unlocked, or the goroutine holding it
  timings,    \* Collector.timings
  startTime,  \* Collector.startTime
  endTime,    \* Collector.endTime (ZeroTime until set)
  now,        \* the wall clock read by time.Now()
  tmp,        \* per goroutine: the slice value append is working on
  tnow,       \* per goroutine: the instant time.Now() returned to Finalize
  cur,        \* per goroutine: the *TimingBreakdown it holds (or Nil)
  stats,      \* per goroutine: what its last Calculate returned
  ops,        \* calls the independent callers of a Collector or of a
              \* StreamingReader have made so far
  job,        \* per goroutine: the job it is working on
  jobs,       \* the buffered channel's content
  closed,     \* the channel has been closed
  wg,         \* sync.WaitGroup counter
  spawnI,     \* runLoad: i of the worker-start loop
  urlIdx,     \* runLoad: position of the range over URLs
  reqI,       \* runLoad: i of the per-URL loop
  jobID,      \* runLoad: jobID
  result,     \* what Run returned ("" while it is running)
  nextPtr,    \* per goroutine: TimingBreakdowns it has allocated so far
  measured,   \* history: MeasureRequest calls per job id
  issued,     \* history: MeasureRequest calls per position in URLs
  history,    \* history: pointers whose Record returned, pointers of the samples
              \* that carry a transport error, Reset calls made
  call,       \* a function of the metrics or client package being applied:
              \* its name, its arguments and, once it has returned, its result
  sr,         \* the StreamingReader: startTime, lastRead, chunkNumber, totalBytes
  metrics,    \* the StreamMetrics object sr.metrics points to
  reads,      \* history: what the underlying reader returned to each Read so far
  snapshot,   \* history: the fields of *sr.metrics when Metrics() last returned
  streamMetrics, \* what MeasureRequestWithStreaming returned besides the timing
  resp        \* the *http.Response whose body is being read (Nil: none)

collectorVars == <<mu, timings, startTime, endTime, now, tmp, tnow, stats>>
streamVars == <<call, sr, metrics, reads, snapshot, streamMetrics, resp>>
loadVars == <<config, job, jobs, closed, wg, spawnI, urlIdx, reqI, jobID, result, measured, issued>>
vars == <<config, pc, mu, timings, startTime, endTime, now, tmp, tnow, cur, stats, ops,
          job, jobs, closed, wg, spawnI, urlIdx, reqI, jobID, result, nextPtr, measured, issued,
          history, call, sr, metrics, reads, snapshot, streamMetrics, resp>>

Procs == DOMAIN pc
Workers == Procs \ {Main}

\* totalRequests of runLoad
TotalRequests == config.Requests * Len(config.URLs)

IsLoadRun == config # NoConfig /\ config.Requests # 1

Role(t) ==
  IF config = NoConfig THEN "client"
  ELSE IF t = Main THEN "main" ELSE "worker"

\* the statement a goroutine resumes at when a Collector method returns
After(t, method) ==
  CASE Role(t) = "client" -> "idle"
    [] Role(t) = "worker" -> "range"
    [] Role(t) = "main" /\ method = "Finalize" -> "Calculate"
    [] OTHER -> "WriteMultiple"

Goto(t, label) == pc' = [pc EXCEPT ![t] = label]

\* time.Now(): the clock has advanced by some amount since it was last read
Nows == {now, now + 1}

\* no function is being applied and no response body is being read
NoCall == [fn |-> "", args |-> <<>>, ret |-> <<>>]
NoReader == [startTime |-> ZeroTime, lastRead |-> ZeroTime, chunkNumber |-> 0, totalBytes |-> 0,
             none |-> TRUE]

NoStream ==
  /\ call = NoCall
  /\ sr = NoReader
  /\ metrics = Nil
  /\ reads = <<>>
  /\ snapshot = Nil
  /\ streamMetrics = Nil
  /\ resp = Nil

\* ------------------------------------------------------------ the Collector
\* NewCollector, run by New before Run is called
NewCollector ==
  /\ mu = Unlocked
  /\ timings = <<>>
  /\ now = 1
  /\ startTime = 1
  /\ endTime = ZeroTime

\* Record going on without waiting for the lock
RecordLockNoWait(t) ==
  /\ pc[t] = "Record"
  /\ mu' = t
  /\ Goto(t, "RecordRead")
  /\ UNCHANGED <<timings, startTime, endTime, now, tmp, tnow, stats, cur, ops, nextPtr, history>>
  /\ UNCHANGED loadVars
  /\ UNCHANGED streamVars

\* c.mu.Lock() of Record
RecordLock(t) ==
  /\ pc[t] = "Record"
  /\ mu = Unlocked
  /\ mu' = t
  /\ Goto(t, "RecordRead")
  /\ UNCHANGED <<timings, startTime, endTime, now, tmp, tnow, stats, cur, ops, nextPtr, history>>
  /\ UNCHANGED loadVars
  /\ UNCHANGED streamVars

\* append(c.timings, timing): the slice is read ...
RecordRead(t) ==
  /\ pc[t] = "RecordRead"
  /\ tmp' = [tmp EXCEPT ![t] = timings]
  /\ Goto(t, "RecordWrite")
  /\ UNCHANGED <<mu, timings, startTime, endTime, now, tnow, stats, cur, ops, nextPtr, history>>
  /\ UNCHANGED loadVars
  /\ UNCHANGED streamVars

\* ... and the extended slice is stored back in c.timings
RecordWrite(t) ==
  /\ pc[t] = "RecordWrite"
  /\ timings' = Append(tmp[t], cur[t])
  /\ tmp' = [tmp EXCEPT ![t] = <<>>]
  /\ Goto(t, "RecordUnlock")
  /\ UNCHANGED <<mu, startTime, endTime, now, tnow, stats, cur, ops, nextPtr, history>>
  /\ UNCHANGED loadVars
  /\ UNCHANGED streamVars

\* the deferred c.mu.Unlock() of Record, and the return
RecordUnlock(t) ==
  /\ pc[t] = "RecordUnlock"
  /\ mu' = Unlocked
  /\ cur' = [cur EXCEPT ![t] = Nil]
  /\ history' = [history EXCEPT !.recorded = @ \cup {cur[t].ptr}]
  /\ Goto(t, After(t, "Record"))
  /\ UNCHANGED <<timings, startTime, endTime, now, tmp, tnow, stats, ops, nextPtr>>
  /\ UNCHANGED loadVars
  /\ UNCHANGED streamVars

\* Finalize: time.Now() is evaluated ...
FinalizeNow(t) ==
  /\ pc[t] = "Finalize"
  /\ \E n \in Nows :
       /\ now' = n
       /\ tnow' = [tnow EXCEPT ![t] = n]
  /\ Goto(t, "FinalizeWrite")
  /\ UNCHANGED <<mu, timings, startTime, endTime, tmp, stats, cur, ops, nextPtr, history>>
  /\ UNCHANGED loadVars
  /\ UNCHANGED streamVars

\* ... and stored in c.endTime; no lock is taken
FinalizeWrite(t) ==
  /\ pc[t] = "FinalizeWrite"
  /\ endTime' = tnow[t]
  /\ tnow' = [tnow EXCEPT ![t] = ZeroTime]
  /\ Goto(t, After(t, "Finalize"))
  /\ UNCHANGED <<mu, timings, startTime, now, tmp, stats, cur, ops, nextPtr, history>>
  /\ UNCHANGED loadVars
  /\ UNCHANGED streamVars

\* c.mu.Lock() of Calculate
CalculateLock(t) ==
  /\ pc[t] = "Calculate"
  /\ mu = Unlocked
  /\ mu' = t
  /\ Goto(t, "CalculateBody")
  /\ UNCHANGED <<timings, startTime, endTime, now, tmp, tnow, stats, cur, ops, nextPtr, history>>
  /\ UNCHANGED loadVars
  /\ UNCHANGED streamVars

\* the values the read of c.endTime in Calculate can yield: endTime, unless
\* a Finalize of another goroutine is writing it at the same time (a data
\* race on a multi-word time.Time), when the read can yield any instant
EndTimeRead(t) ==
  IF \E u \in Procs \ {t} : pc[u] = "FinalizeWrite"
  THEN ZeroTime..now
  ELSE {endTime}

\* the body of Calculate, under the lock
CalculateBody(t) ==
  /\ pc[t] = "CalculateBody"
  /\ \E e \in EndTimeRead(t) :
       stats' = [stats EXCEPT ![t] = CalculateStats(timings, startTime, e)]
  /\ Goto(t, "CalculateUnlock")
  /\ UNCHANGED <<mu, timings, startTime, endTime, now, tmp, tnow, cur, ops, nextPtr, history>>
  /\ UNCHANGED loadVars
  /\ UNCHANGED streamVars

\* the deferred c.mu.Unlock() of Calculate, and the return; runLoad keeps
\* the Stats for the formatter, an independent caller drops it
CalculateUnlock(t) ==
  /\ pc[t] = "CalculateUnlock"
  /\ mu' = Unlocked
  /\ Goto(t, IF stats[t].panic THEN "panicked" ELSE After(t, "Calculate"))
  /\ stats' = IF Role(t) = "client" /\ ~stats[t].panic
              THEN [stats EXCEPT ![t] = NoResult]
              ELSE stats
  /\ UNCHANGED <<timings, startTime, endTime, now, tmp, tnow, cur, ops, nextPtr, history>>
  /\ UNCHANGED loadVars
  /\ UNCHANGED streamVars

\* c.mu.Lock() of Reset
ResetLock(t) ==
  /\ pc[t] = "Reset"
  /\ mu = Unlocked
  /\ mu' = t
  /\ Goto(t, "ResetBody")
  /\ UNCHANGED <<timings, startTime, endTime, now, tmp, tnow, stats, cur, ops, nextPtr, history>>
  /\ UNCHANGED loadVars
  /\ UNCHANGED streamVars

\* the body of Reset, under the lock: endTime is left as it is
ResetBody(t) ==
  /\ pc[t] = "ResetBody"
  /\ timings' = <<>>
  /\ \E n \in Nows :
       /\ now' = n
       /\ startTime' = n
  /\ Goto(t, "ResetUnlock")
  /\ UNCHANGED <<mu, endTime, tmp, tnow, stats, cur, ops, nextPtr, history>>
  /\ UNCHANGED loadVars
  /\ UNCHANGED streamVars

\* the deferred c.mu.Unlock() of Reset, and the return
ResetUnlock(t) ==
  /\ pc[t] = "ResetUnlock"
  /\ mu' = Unlocked
  /\ Goto(t, After(t, "Reset"))
  /\ UNCHANGED <<timings, startTime, endTime, now, tmp, tnow, stats, cur, ops, nextPtr, history>>
  /\ UNCHANGED loadVars
  /\ UNCHANGED streamVars

\* ----------------------------------------------------------- timing capture
\* a worker that records successful samples only
RecordIfNoError(timing) ==
  IF timing # Nil /\ timing.Error = "" THEN "Record" ELSE "range"

\* the worker's if timing != nil { a.collector.Record(timing) }
RecordIfTiming(timing) == IF timing # Nil THEN "Record" ELSE "range"

\* where MeasureRequest returns to: runSingle's checks, or the worker's
Measured(t, timing) == IF t = Main THEN "Measured" ELSE RecordIfTiming(timing)

\* Client.MeasureRequest up to http.NewRequest: a request that cannot be
\* built returns (nil, err); otherwise the tracer's TimingBreakdown exists
MeasureRequest(t) ==
  /\ pc[t] = "MeasureRequest"
  /\ measured' = IF job[t].id >= 0
                 THEN [measured EXCEPT ![job[t].id] = @ + 1]
                 ELSE measured
  /\ issued' = [issued EXCEPT ![job[t].pos] = @ + 1]
  /\ IF NewRequestOK(job[t].url)
     THEN /\ Goto(t, "Do")
          /\ UNCHANGED <<cur, job>>
     ELSE /\ Goto(t, Measured(t, Nil))
          /\ cur' = [cur EXCEPT ![t] = Nil]
          /\ job' = [job EXCEPT ![t] = NoJob]
  /\ UNCHANGED <<config, jobs, closed, wg, spawnI, urlIdx, reqI, jobID, result>>
  /\ UNCHANGED <<ops, nextPtr, history>>
  /\ UNCHANGED collectorVars
  /\ UNCHANGED streamVars

\* c.client.Do and the body read return: a sample, with or without error text
Do(t) ==
  /\ pc[t] = "Do"
  /\ \E o \in DoOutcomes :
       /\ cur' = [cur EXCEPT ![t] = Timing(<<t, nextPtr[t]>>, o)]
       /\ Goto(t, Measured(t, Timing(<<t, nextPtr[t]>>, o)))
  /\ nextPtr' = [nextPtr EXCEPT ![t] = @ + 1]
  /\ history' = IF cur'[t].Error # ""
                THEN [history EXCEPT !.failed = @ \cup {cur'[t].ptr}]
                ELSE history
  /\ job' = [job EXCEPT ![t] = NoJob]
  /\ UNCHANGED <<config, jobs, closed, wg, spawnI, urlIdx, reqI, jobID, result, measured, issued>>
  /\ UNCHANGED ops
  /\ UNCHANGED collectorVars
  /\ UNCHANGED streamVars

\* ------------------------------------------------------ the StreamingReader
\* what the underlying reader can return to one Read: n bytes and an error
ReadResults == [n : 0..2, err : {"", "EOF", "unexpected EOF"}]

\* how long the underlying reader can take to return
ReadDelays == {0, 200 * Millisecond, 600 * Millisecond, 1100 * Millisecond}

\* c.config.StallThreshold == 0: the default threshold
StallThreshold == 500 * Millisecond

\* the reader was made by MeasureRequestWithStreaming, which reads it to its end
Piped == resp # Nil

StreamUnchanged ==
  /\ UNCHANGED <<mu, timings, startTime, endTime, tmp, tnow, stats>>
  /\ UNCHANGED loadVars
  /\ UNCHANGED <<history, call>>

NewStreamingReader(t) ==
  /\ pc[t] = "NewStreamingReader"
  /\ sr' = [startTime |-> now, lastRead |-> now, chunkNumber |-> 0, totalBytes |-> 0]
  /\ metrics' = NewStreamMetrics
  /\ Goto(t, IF Piped THEN "Copy" ELSE "Reader")
  /\ UNCHANGED <<now, cur, ops, nextPtr, reads, snapshot, streamMetrics, resp>>
  /\ StreamUnchanged

\* the if n > 0 { ... } block of Read: the chunk is appended and counted
ReadRecord(r, at) ==
  LET elapsed == at - sr.startTime
      chunk == [SequenceNumber |-> sr.chunkNumber, Size |-> r.n, ElapsedTime |-> elapsed,
                Timestamp |-> at,
                Throughput |-> IF at - sr.lastRead > 0
                               THEN Ratio(r.n * 8, at - sr.lastRead) ELSE Ratio(0, 1)]
  IN  /\ metrics' = [metrics EXCEPT !.ChunkTimings = Append(@, chunk),
                                     !.FirstChunkTime = IF sr.chunkNumber = 0 THEN elapsed ELSE @,
                                     !.LastChunkTime = elapsed]
      /\ sr' = [sr EXCEPT !.chunkNumber = @ + 1, !.totalBytes = @ + r.n, !.lastRead = at]

\* a Read that records a chunk for every call, whatever n is
ReadBodyAlways(r, at) == ReadRecord(r, at)

\* the body of Read once the underlying reader has returned r at instant at
ReadBody(r, at) ==
  IF r.n > 0 THEN ReadRecord(r, at) ELSE UNCHANGED <<metrics, sr>>

\* StreamingReader.Read; io.Copy and io.ReadAll call it until it returns an error
Read(t) ==
  /\ pc[t] \in {"Copy", "Reader"}
  /\ pc[t] = "Reader" => ops < MaxCalls
  /\ \E r \in ReadResults, d \in ReadDelays :
       /\ (pc[t] = "Copy" /\ Len(reads) + 1 >= MaxReads) => r.err # ""
       /\ now' = now + d
       /\ reads' = Append(reads, r)
       /\ ReadBody(r, now + d)
       /\ Goto(t, IF pc[t] = "Copy" /\ r.err # "" THEN "Metrics" ELSE pc[t])
  /\ ops' = IF pc[t] = "Reader" THEN ops + 1 ELSE ops
  /\ UNCHANGED <<cur, nextPtr, snapshot, streamMetrics, resp>>
  /\ StreamUnchanged

\* an average that rounds up
AverageChunkSizeCeil(reader, previous) ==
  IF reader.chunkNumber > 0
  THEN (reader.totalBytes + reader.chunkNumber - 1) \div reader.chunkNumber
  ELSE previous

\* if sr.chunkNumber > 0 { AverageChunkSize = sr.totalBytes / int64(sr.chunkNumber) }
AverageChunkSize(reader, previous) ==
  IF reader.chunkNumber > 0 THEN reader.totalBytes \div reader.chunkNumber ELSE previous

\* StreamingReader.Metrics: the totals are copied into *sr.metrics, and the
\* pointer sr.metrics is returned
Metrics(t) ==
  /\ pc[t] \in {"Metrics", "Reader"}
  /\ pc[t] = "Reader" => ops < MaxCalls
  /\ metrics' = [metrics EXCEPT
                   !.TotalChunks = sr.chunkNumber,
                   !.TotalBytes = sr.totalBytes,
                   !.AverageChunkSize = AverageChunkSize(sr, @),
                   !.BytesPerSecond = IF now - sr.startTime > 0
                                      THEN Ratio(sr.totalBytes, now - sr.startTime) ELSE @]
  /\ snapshot' = metrics'
  /\ Goto(t, IF pc[t] = "Metrics" THEN "Analyze" ELSE pc[t])
  /\ ops' = IF pc[t] = "Reader" THEN ops + 1 ELSE ops
  /\ UNCHANGED <<now, cur, nextPtr, sr, reads, streamMetrics, resp>>
  /\ StreamUnchanged

\* ----------------------------------------------- MeasureRequestWithStreaming
\* up to http.NewRequest: a request that cannot be built returns (nil, nil, err)
MeasureRequestWithStreaming(t) ==
  /\ pc[t] = "MeasureRequestWithStreaming"
  /\ IF NewRequestOK(job[t].url)
     THEN /\ Goto(t, "DoStream")
          /\ UNCHANGED <<cur, streamMetrics>>
     ELSE /\ Goto(t, "StreamMeasured")
          /\ cur' = [cur EXCEPT ![t] = Nil]
          /\ streamMetrics' = Nil
  /\ UNCHANGED <<now, ops, nextPtr, sr, metrics, reads, snapshot, resp>>
  /\ StreamUnchanged

\* c.client.Do: a transport error returns (timing, nil, err); otherwise the
\* response headers are analyzed and the body is about to be wrapped
DoStream(t) ==
  /\ pc[t] = "DoStream"
  /\ \/ /\ \E o \in {x \in DoOutcomes : x.Error # ""} :
             cur' = [cur EXCEPT ![t] = Timing(<<t, nextPtr[t]>>, o)]
        /\ nextPtr' = [nextPtr EXCEPT ![t] = @ + 1]
        /\ streamMetrics' = Nil
        /\ Goto(t, "StreamMeasured")
        /\ UNCHANGED resp
     \/ /\ \E code \in {200}, likely \in BOOLEAN :
             resp' = [StatusCode |-> code, StreamingInfo |-> [IsStreamingLikely |-> likely]]
        /\ Goto(t, "NewStreamingReader")
        /\ UNCHANGED <<cur, nextPtr, streamMetrics>>
  /\ UNCHANGED <<now, ops, sr, metrics, reads, snapshot>>
  /\ StreamUnchanged

\* after streamReader.Metrics(): the timing is filled in, the report gets its
\* StreamingInfo and, if there is any chunk, its BufferingAnalysis and Stalls
Analyze(t) ==
  /\ pc[t] = "Analyze"
  /\ metrics' = IF Len(metrics.ChunkTimings) > 0
                 THEN [metrics EXCEPT !.StreamingInfo = resp.StreamingInfo,
                                      !.BufferingAnalysis = AnalyzeBuffering(metrics),
                                      !.Stalls = DetectStalls(metrics, StallThreshold)]
                 ELSE [metrics EXCEPT !.StreamingInfo = resp.StreamingInfo]
  /\ cur' = [cur EXCEPT ![t] =
               Timing(<<t, nextPtr[t]>>,
                      [Total |-> now - sr.startTime, StatusCode |-> resp.StatusCode,
                       ResponseSize |-> metrics.TotalBytes,
                       Error |-> IF reads[Len(reads)].err = "EOF" THEN ""
                                 ELSE reads[Len(reads)].err])]
  /\ nextPtr' = [nextPtr EXCEPT ![t] = @ + 1]
  /\ streamMetrics' = [ref |-> "sr.metrics"]
  /\ Goto(t, "StreamMeasured")
  /\ UNCHANGED <<now, ops, sr, reads, snapshot, resp>>
  /\ StreamUnchanged

\* ------------------------------------------------------------------ workers
\* a receive that leaves the job in the channel
ReceiveKeep(w) ==
  /\ pc[w] = "range"
  /\ Len(jobs) > 0
  /\ job' = [job EXCEPT ![w] = Head(jobs)]
  /\ Goto(w, "MeasureRequest")
  /\ UNCHANGED <<config, jobs, closed, wg, spawnI, urlIdx, reqI, jobID, result, measured, issued>>
  /\ UNCHANGED <<cur, ops, nextPtr, history>>
  /\ UNCHANGED collectorVars
  /\ UNCHANGED streamVars

\* for j := range jobs: a job is received
Receive(w) ==
  /\ pc[w] = "range"
  /\ Len(jobs) > 0
  /\ job' = [job EXCEPT ![w] = Head(jobs)]
  /\ jobs' = Tail(jobs)
  /\ Goto(w, "MeasureRequest")
  /\ UNCHANGED <<config, closed, wg, spawnI, urlIdx, reqI, jobID, result, measured, issued>>
  /\ UNCHANGED <<cur, ops, nextPtr, history>>
  /\ UNCHANGED collectorVars
  /\ UNCHANGED streamVars

\* for j := range jobs: the channel is closed and empty; defer wg.Done()
RangeEnd(w) ==
  /\ pc[w] = "range"
  /\ Len(jobs) = 0
  /\ closed
  /\ wg' = wg - 1
  /\ Goto(w, "exited")
  /\ UNCHANGED <<config, job, jobs, closed, spawnI, urlIdx, reqI, jobID, result, measured, issued>>
  /\ UNCHANGED <<cur, ops, nextPtr, history>>
  /\ UNCHANGED collectorVars
  /\ UNCHANGED streamVars

\* ---------------------------------------------------------------- App.Run
MainUnchanged ==
  /\ UNCHANGED <<cur, ops, nextPtr, history>>
  /\ UNCHANGED collectorVars
  /\ UNCHANGED streamVars

Run ==
  /\ pc[Main] = "Run"
  /\ Goto(Main, IF config.Requests = 1 THEN "runSingle" ELSE "runLoad")
  /\ UNCHANGED loadVars
  /\ UNCHANGED streamVars
  /\ MainUnchanged

\* runSingle: the first URL only
runSingle ==
  /\ pc[Main] = "runSingle"
  /\ IF Len(config.URLs) = 0
     THEN /\ result' = "no URLs provided"
          /\ Goto(Main, "done")
          /\ UNCHANGED job
     ELSE /\ job' = [job EXCEPT ![Main] = [url |-> config.URLs[1], id |-> 0 - 1, pos |-> 1]]
          /\ Goto(Main, "MeasureRequest")
          /\ UNCHANGED result
  /\ UNCHANGED <<config, jobs, closed, wg, spawnI, urlIdx, reqI, jobID, measured, issued>>
  /\ MainUnchanged

\* if err != nil && timing == nil { return "request failed" }
SingleMeasured ==
  /\ pc[Main] = "Measured"
  /\ IF cur[Main] = Nil
     THEN /\ result' = "request failed"
          /\ Goto(Main, "done")
     ELSE /\ Goto(Main, "Write")
          /\ UNCHANGED result
  /\ UNCHANGED <<config, job, jobs, closed, wg, spawnI, urlIdx, reqI, jobID, measured, issued>>
  /\ MainUnchanged

\* formatter.Write, then the request's own error if it has one
SingleWrite ==
  /\ pc[Main] = "Write"
  /\ \E written \in BOOLEAN :
       result' = IF ~written THEN "failed to format output"
                 ELSE IF cur[Main].Error # "" THEN "request error"
                 ELSE "nil"
  /\ Goto(Main, "done")
  /\ UNCHANGED <<config, job, jobs, closed, wg, spawnI, urlIdx, reqI, jobID, measured, issued>>
  /\ MainUnchanged

\* runLoad up to make(chan job, totalRequests)
runLoad ==
  /\ pc[Main] = "runLoad"
  /\ IF Len(config.URLs) = 0
     THEN /\ result' = "no URLs provided"
          /\ Goto(Main, "done")
     ELSE /\ Goto(Main, "StartWorkers")
          /\ UNCHANGED result
  /\ UNCHANGED <<config, job, jobs, closed, wg, spawnI, urlIdx, reqI, jobID, measured, issued>>
  /\ MainUnchanged

\* a loop that starts one worker more than asked for
StartWorkersOneMore ==
  /\ pc[Main] = "StartWorkers"
  /\ IF spawnI <= config.Concurrency /\ spawnI + 1 \in DOMAIN pc
     THEN /\ wg' = wg + 1
          /\ pc' = [pc EXCEPT ![spawnI + 1] = "range"]
          /\ spawnI' = spawnI + 1
     ELSE /\ Goto(Main, "SendJobs")
          /\ UNCHANGED <<wg, spawnI>>
  /\ UNCHANGED <<config, job, jobs, closed, urlIdx, reqI, jobID, result, measured, issued>>
  /\ MainUnchanged

\* for i := 0; i < Concurrency; i++ { wg.Add(1); go func() {...}() }
StartWorkers ==
  /\ pc[Main] = "StartWorkers"
  /\ IF spawnI < config.Concurrency
     THEN /\ wg' = wg + 1
          /\ pc' = [pc EXCEPT ![spawnI + 1] = "range"]
          /\ spawnI' = spawnI + 1
     ELSE /\ Goto(Main, "SendJobs")
          /\ UNCHANGED <<wg, spawnI>>
  /\ UNCHANGED <<config, job, jobs, closed, urlIdx, reqI, jobID, result, measured, issued>>
  /\ MainUnchanged

\* the two loops that send the jobs; a send waits for room in the buffer
SendJobs ==
  /\ pc[Main] = "SendJobs"
  /\ IF urlIdx > Len(config.URLs)
     THEN /\ Goto(Main, "close")
          /\ UNCHANGED <<jobs, urlIdx, reqI, jobID>>
     ELSE IF reqI < config.Requests
     THEN /\ Len(jobs) < TotalRequests
          /\ jobs' = Append(jobs, [url |-> config.URLs[urlIdx], id |-> jobID, pos |-> urlIdx])
          /\ jobID' = jobID + 1
          /\ reqI' = reqI + 1
          /\ UNCHANGED <<pc, urlIdx>>
     ELSE /\ urlIdx' = urlIdx + 1
          /\ reqI' = 0
          /\ UNCHANGED <<pc, jobs, jobID>>
  /\ UNCHANGED <<config, job, closed, wg, spawnI, result, measured, issued>>
  /\ MainUnchanged

\* runLoad without close(jobs)
CloseJobsSkipped ==
  /\ pc[Main] = "close"
  /\ Goto(Main, "Wait")
  /\ UNCHANGED loadVars
  /\ UNCHANGED streamVars
  /\ MainUnchanged

\* close(jobs)
CloseJobs ==
  /\ pc[Main] = "close"
  /\ closed' = TRUE
  /\ Goto(Main, "Wait")
  /\ UNCHANGED <<config, job, jobs, wg, spawnI, urlIdx, reqI, jobID, result, measured, issued>>
  /\ MainUnchanged

\* a Wait that does not wait
WgWaitNoBlock ==
  /\ pc[Main] = "Wait"
  /\ Goto(Main, "Finalize")
  /\ UNCHANGED loadVars
  /\ UNCHANGED streamVars
  /\ MainUnchanged

\* wg.Wait() returns when the counter is zero
WgWait ==
  /\ pc[Main] = "Wait"
  /\ wg = 0
  /\ Goto(Main, "Finalize")
  /\ UNCHANGED loadVars
  /\ UNCHANGED streamVars
  /\ MainUnchanged

\* formatter.WriteMultiple(os.Stdout, stats) and the return of runLoad
WriteMultiple ==
  /\ pc[Main] = "WriteMultiple"
  /\ \E written \in BOOLEAN :
       result' = IF written THEN "nil" ELSE "failed to format output"
  /\ Goto(Main, "done")
  /\ UNCHANGED <<config, job, jobs, closed, wg, spawnI, urlIdx, reqI, jobID, measured, issued>>
  /\ MainUnchanged

\* ------------------------------------------------------- specification Spec
\* the state New leaves, for every configuration within the bounds
Init ==
  /\ config \in Configs
  /\ pc = [t \in 0..MaxConcurrency |-> IF t = Main THEN "Run" ELSE "notstarted"]
  /\ NewCollector
  /\ tmp = [t \in 0..MaxConcurrency |-> <<>>]
  /\ tnow = [t \in 0..MaxConcurrency |-> ZeroTime]
  /\ cur = [t \in 0..MaxConcurrency |-> Nil]
  /\ stats = [t \in 0..MaxConcurrency |-> NoResult]
  /\ ops = 0
  /\ job = [t \in 0..MaxConcurrency |-> NoJob]
  /\ jobs = <<>>
  /\ closed = FALSE
  /\ wg = 0
  /\ spawnI = 0
  /\ urlIdx = 1
  /\ reqI = 0
  /\ jobID = 0
  /\ result = ""
  /\ nextPtr = [t \in 0..MaxConcurrency |-> 1]
  /\ measured = [j \in 0..(MaxJobs - 1) |-> 0]
  /\ issued = [k \in 1..MaxURLs |-> 0]
  /\ history = [recorded |-> {}, failed |-> {}, resets |-> 0]
  /\ NoStream

WorkerStep(w) ==
  \/ Receive(w)
  \/ RangeEnd(w)
  \/ MeasureRequest(w)
  \/ Do(w)
  \/ RecordLock(w)
  \/ RecordRead(w)
  \/ RecordWrite(w)
  \/ RecordUnlock(w)

MainStep ==
  \/ Run
  \/ runSingle
  \/ MeasureRequest(Main)
  \/ Do(Main)
  \/ SingleMeasured
  \/ SingleWrite
  \/ runLoad
  \/ StartWorkers
  \/ SendJobs
  \/ CloseJobs
  \/ WgWait
  \/ FinalizeNow(Main)
  \/ FinalizeWrite(Main)
  \/ CalculateLock(Main)
  \/ CalculateBody(Main)
  \/ CalculateUnlock(Main)
  \/ WriteMultiple

Next ==
  \/ MainStep
  \/ \E w \in 1..MaxConcurrency : WorkerStep(w)

Spec == Init /\ [][Next]_vars

\* the scheduler runs some goroutine as long as one can run, and every
\* measure call returns
FairSpec == Spec /\ WF_vars(Next)

\* ---------------------------------------------- specification CollectorSpec
\* goroutines sharing one Collector, each calling its methods in any order
CallUnchanged ==
  /\ UNCHANGED collectorVars
  /\ UNCHANGED loadVars
  /\ UNCHANGED streamVars

CallRecord(t) ==
  /\ pc[t] = "idle"
  /\ ops < MaxOps
  /\ ops' = ops + 1
  /\ \E o \in ClientSamples :
       cur' = [cur EXCEPT ![t] = Timing(<<t, nextPtr[t]>>, o)]
  /\ nextPtr' = [nextPtr EXCEPT ![t] = @ + 1]
  /\ Goto(t, "Record")
  /\ UNCHANGED history
  /\ CallUnchanged

CallFinalize(t) ==
  /\ pc[t] = "idle"
  /\ ops < MaxOps
  /\ ops' = ops + 1
  /\ Goto(t, "Finalize")
  /\ UNCHANGED <<cur, nextPtr, history>>
  /\ CallUnchanged

CallCalculate(t) ==
  /\ pc[t] = "idle"
  /\ ops < MaxOps
  /\ ops' = ops + 1
  /\ Goto(t, "Calculate")
  /\ UNCHANGED <<cur, nextPtr, history>>
  /\ CallUnchanged

CallReset(t) ==
  /\ pc[t] = "idle"
  /\ ops < MaxOps
  /\ ops' = ops + 1
  /\ history' = [history EXCEPT !.resets = @ + 1]
  /\ Goto(t, "Reset")
  /\ UNCHANGED <<cur, nextPtr>>
  /\ CallUnchanged

InitCollector ==
  /\ config = NoConfig
  /\ pc = [t \in 1..MaxClients |-> "idle"]
  /\ NewCollector
  /\ tmp = [t \in 1..MaxClients |-> <<>>]
  /\ tnow = [t \in 1..MaxClients |-> ZeroTime]
  /\ cur = [t \in 1..MaxClients |-> Nil]
  /\ stats = [t \in 1..MaxClients |-> NoResult]
  /\ ops = 0
  /\ job = [t \in 1..MaxClients |-> NoJob]
  /\ jobs = <<>>
  /\ closed = FALSE
  /\ wg = 0
  /\ spawnI = 0
  /\ urlIdx = 1
  /\ reqI = 0
  /\ jobID = 0
  /\ result = ""
  /\ nextPtr = [t \in 1..MaxClients |-> 1]
  /\ measured = [j \in 0..(MaxJobs - 1) |-> 0]
  /\ issued = [k \in 1..MaxURLs |-> 0]
  /\ history = [recorded |-> {}, failed |-> {}, resets |-> 0]
  /\ NoStream

ClientStep(t) ==
  \/ CallRecord(t)
  \/ CallFinalize(t)
  \/ CallCalculate(t)
  \/ CallReset(t)
  \/ RecordLock(t)
  \/ RecordRead(t)
  \/ RecordWrite(t)
  \/ RecordUnlock(t)
  \/ FinalizeNow(t)
  \/ FinalizeWrite(t)
  \/ CalculateLock(t)
  \/ CalculateBody(t)
  \/ CalculateUnlock(t)
  \/ ResetLock(t)
  \/ ResetBody(t)
  \/ ResetUnlock(t)

CollectorNext == \E t \in 1..MaxClients : ClientStep(t)

CollectorSpec == InitCollector /\ [][CollectorNext]_vars

\* every variable of the load run and of the collector at rest, one goroutine
InitIdle(label) ==
  /\ config = NoConfig
  /\ pc = [t \in {Main} |-> label]
  /\ NewCollector
  /\ tmp = [t \in {Main} |-> <<>>]
  /\ tnow = [t \in {Main} |-> ZeroTime]
  /\ cur = [t \in {Main} |-> Nil]
  /\ stats = [t \in {Main} |-> NoResult]
  /\ ops = 0
  /\ job = [t \in {Main} |-> NoJob]
  /\ jobs = <<>>
  /\ closed = FALSE
  /\ wg = 0
  /\ spawnI = 0
  /\ urlIdx = 1
  /\ reqI = 0
  /\ jobID = 0
  /\ result = ""
  /\ nextPtr = [t \in {Main} |-> 1]
  /\ measured = [j \in 0..(MaxJobs - 1) |-> 0]
  /\ issued = [k \in 1..MaxURLs |-> 0]
  /\ history = [recorded |-> {}, failed |-> {}, resets |-> 0]

\* ------------------------------------------- specification SequentialSpec
\* one goroutine calling the methods of a Collector one after another, in any
\* order
InitSequential ==
  /\ InitIdle("idle")
  /\ NoStream

SequentialNext == ClientStep(Main)

SequentialSpec == InitSequential /\ [][SequentialNext]_vars

\* ------------------------------------------------ specification StatsSpec
\* one Calculate on a Collector that holds a given list of samples
StatSamples ==
  {[Total |-> 9999, StatusCode |-> 200, ResponseSize |-> 2, Error |-> ""],
   [Total |-> 10 * Millisecond, StatusCode |-> 500, ResponseSize |-> 1, Error |-> ""],
   [Total |-> 25 * Millisecond, StatusCode |-> 0, ResponseSize |-> 0, Error |-> "connection refused"],
   [Total |-> 3 * Millisecond, StatusCode |-> 200, ResponseSize |-> 1, Error |-> "unexpected EOF"]}

\* the i-th of n samples of a long run: a few slow ones among many fast ones
LongRunSample(i, n) ==
  IF i = n THEN [Total |-> 25 * Millisecond, StatusCode |-> 200, ResponseSize |-> 1, Error |-> ""]
  ELSE IF i % 100 = 0 THEN [Total |-> 10 * Millisecond, StatusCode |-> 500, ResponseSize |-> 1, Error |-> ""]
  ELSE [Total |-> 3 * Millisecond, StatusCode |-> 200, ResponseSize |-> 2, Error |-> ""]

\* sample counts at and just below the extended-percentile thresholds
LongRuns == {P999MinSamples - 1, P999MinSamples, P9999MinSamples - 1, P9999MinSamples}

\* the sample lists: every list of at most MaxLen samples, and the long runs
SampleLists ==
  {[i \in 1..Len(l) |-> Timing(<<Main, i>>, l[i])] : l \in SeqsUpTo(StatSamples, MaxLen)}
    \cup {[i \in 1..n |-> Timing(<<Main, i>>, LongRunSample(i, n))] : n \in LongRuns}

InitStats ==
  /\ config = NoConfig
  /\ pc = [t \in {Main} |-> "Calculate"]
  /\ mu = Unlocked
  /\ timings \in SampleLists
  /\ startTime = 1
  /\ now = 2
  /\ endTime \in {ZeroTime, 1, 2}
  /\ tmp = [t \in {Main} |-> <<>>]
  /\ tnow = [t \in {Main} |-> ZeroTime]
  /\ cur = [t \in {Main} |-> Nil]
  /\ stats = [t \in {Main} |-> NoResult]
  /\ ops = 1
  /\ job = [t \in {Main} |-> NoJob]
  /\ jobs = <<>>
  /\ closed = FALSE
  /\ wg = 0
  /\ spawnI = 0
  /\ urlIdx = 1
  /\ reqI = 0
  /\ jobID = 0
  /\ result = ""
  /\ nextPtr = [t \in {Main} |-> 1]
  /\ measured = [j \in 0..(MaxJobs - 1) |-> 0]
  /\ issued = [k \in 1..MaxURLs |-> 0]
  /\ history = [recorded |-> {timings[i].ptr : i \in 1..Len(timings)}, failed |-> {}, resets |-> 0]
  /\ NoStream

StatsNext ==
  \/ CalculateLock(Main)
  \/ CalculateBody(Main)
  \/ CalculateUnlock(Main)

StatsSpec == InitStats /\ [][StatsNext]_vars

\* ----------------------------------------------- specification ReaderSpec
\* a caller that wraps a reader and calls Read and Metrics in any order
InitReader ==
  /\ InitIdle("NewStreamingReader")
  /\ NoStream

ReaderNext ==
  \/ NewStreamingReader(Main)
  \/ Read(Main)
  \/ Metrics(Main)

ReaderSpec == InitReader /\ [][ReaderNext]_vars

\* ----------------------------------------------- specification StreamSpec
\* one MeasureRequestWithStreaming, for each URL
InitStream ==
  /\ config = NoConfig
  /\ pc = [t \in {Main} |-> "MeasureRequestWithStreaming"]
  /\ NewCollector
  /\ tmp = [t \in {Main} |-> <<>>]
  /\ tnow = [t \in {Main} |-> ZeroTime]
  /\ cur = [t \in {Main} |-> Nil]
  /\ stats = [t \in {Main} |-> NoResult]
  /\ ops = 0
  /\ \E u \in URLSet : job = [t \in {Main} |-> [url |-> u, id |-> 0 - 1, pos |-> 1]]
  /\ jobs = <<>>
  /\ closed = FALSE
  /\ wg = 0
  /\ spawnI = 0
  /\ urlIdx = 1
  /\ reqI = 0
  /\ jobID = 0
  /\ result = ""
  /\ nextPtr = [t \in {Main} |-> 1]
  /\ measured = [j \in 0..(MaxJobs - 1) |-> 0]
  /\ issued = [k \in 1..MaxURLs |-> 0]
  /\ history = [recorded |-> {}, failed |-> {}, resets |-> 0]
  /\ NoStream

StreamNext ==
  \/ MeasureRequestWithStreaming(Main)
  \/ DoStream(Main)
  \/ NewStreamingReader(Main)
  \/ Read(Main)
  \/ Metrics(Main)
  \/ Analyze(Main)

StreamSpec == InitStream /\ [][StreamNext]_vars

\* ----------------------------------------------- specification ExpectSpec
\* App.Run for a single request with --streaming, with and without
\* --expect-streaming (which implies --streaming)
StreamingConfigs ==
  [URLs : SeqsUpTo(URLSet, 1), Requests : {1}, Concurrency : {1},
   EnableStreaming : {TRUE}, ExpectStreaming : BOOLEAN]

\* App.validateStreaming: the error it returns, "" for nil
validateStreaming(m) ==
  IF m.BufferingAnalysis = Nil THEN "streaming validation failed: no buffering analysis available"
  ELSE IF m.BufferingAnalysis.BufferingDetected
    THEN "streaming validation failed: buffering detected"
  ELSE IF m.StreamingInfo # Nil /\ ~m.StreamingInfo.IsStreamingLikely
    THEN "streaming validation failed: response headers do not indicate streaming"
  ELSE ""

\* runSingle with EnableStreaming: the first URL only
runSingleStreaming ==
  /\ pc[Main] = "runSingle"
  /\ config.EnableStreaming
  /\ IF Len(config.URLs) = 0
     THEN /\ result' = "no URLs provided"
          /\ Goto(Main, "done")
          /\ UNCHANGED job
     ELSE /\ job' = [job EXCEPT ![Main] = [url |-> config.URLs[1], id |-> 0 - 1, pos |-> 1]]
          /\ Goto(Main, "MeasureRequestWithStreaming")
          /\ UNCHANGED result
  /\ UNCHANGED <<config, jobs, closed, wg, spawnI, urlIdx, reqI, jobID, measured, issued>>
  /\ MainUnchanged

\* if err != nil && timing == nil { return "request failed" }
SingleStreamMeasured ==
  /\ pc[Main] = "StreamMeasured"
  /\ IF cur[Main] = Nil
     THEN /\ result' = "request failed"
          /\ Goto(Main, "done")
     ELSE /\ Goto(Main, "WriteStream")
          /\ UNCHANGED result
  /\ UNCHANGED <<config, job, jobs, closed, wg, spawnI, urlIdx, reqI, jobID, measured, issued>>
  /\ MainUnchanged

\* formatter.Write, the streaming validation if it was asked for, then the
\* request's own error if it has one
SingleStreamWrite ==
  /\ pc[Main] = "WriteStream"
  /\ \E written \in BOOLEAN :
       result' = IF ~written THEN "failed to format output"
                 ELSE IF config.ExpectStreaming /\ streamMetrics # Nil
                         /\ validateStreaming(metrics) # ""
                   THEN validateStreaming(metrics)
                 ELSE IF cur[Main].Error # "" THEN "request error"
                 ELSE "nil"
  /\ Goto(Main, "done")
  /\ UNCHANGED <<config, job, jobs, closed, wg, spawnI, urlIdx, reqI, jobID, measured, issued>>
  /\ MainUnchanged

InitExpect ==
  /\ config \in StreamingConfigs
  /\ pc = [t \in {Main} |-> "runSingle"]
  /\ NewCollector
  /\ tmp = [t \in {Main} |-> <<>>]
  /\ tnow = [t \in {Main} |-> ZeroTime]
  /\ cur = [t \in {Main} |-> Nil]
  /\ stats = [t \in {Main} |-> NoResult]
  /\ ops = 0
  /\ job = [t \in {Main} |-> NoJob]
  /\ jobs = <<>>
  /\ closed = FALSE
  /\ wg = 0
  /\ spawnI = 0
  /\ urlIdx = 1
  /\ reqI = 0
  /\ jobID = 0
  /\ result = ""
  /\ nextPtr = [t \in {Main} |-> 1]
  /\ measured = [j \in 0..(MaxJobs - 1) |-> 0]
  /\ issued = [k \in 1..MaxURLs |-> 0]
  /\ history = [recorded |-> {}, failed |-> {}, resets |-> 0]
  /\ NoStream

ExpectNext ==
  \/ runSingleStreaming
  \/ MeasureRequestWithStreaming(Main)
  \/ DoStream(Main)
  \/ NewStreamingReader(Main)
  \/ Read(Main)
  \/ Metrics(Main)
  \/ Analyze(Main)
  \/ SingleStreamMeasured
  \/ SingleStreamWrite

ExpectSpec == InitExpect /\ [][ExpectNext]_vars

\* ------------------------------------------------- specification FuncSpec
\* a function of the metrics or the client package applied on its own, to
\* arguments drawn from bounded sets
LatencyValues == {0, 1500, 10 * Millisecond, 25 * Millisecond}

\* the non-decreasing lists of at most MaxLen latencies
SortedLists == {l \in SeqsUpTo(LatencyValues, MaxLen) : \A i \in 1..(Len(l) - 1) : l[i] <= l[i + 1]}

\* the percents asked for, as numerator and denominator
Percents ==
  {<<0 - 5, 1>>, <<0, 1>>, <<25, 1>>, <<50, 1>>, <<75, 1>>, <<90, 1>>, <<95, 1>>, <<99, 1>>,
   <<999, 10>>, <<9999, 100>>, <<100, 1>>, <<150, 1>>}

percentileCalls ==
  {[fn |-> "percentile", args |-> <<l, p[1], p[2]>>, ret |-> <<>>] : l \in SortedLists, p \in Percents}

\* coefficients of variation below, at and above 0.3 and 0.7
CVs == {Sqrt(0, 1), Sqrt(8, 100), Sqrt(9, 100), Sqrt(48, 100), Sqrt(49, 100), Sqrt(225, 100)}

\* inter-chunk delays in milliseconds, around the 500 ms mark
DelayValues == {0, 500, 501, 2000}

\* ten delays of which k are long
TenDelays(k) == [i \in 1..10 |-> IF i <= k THEN 501 ELSE 0]

detectChunkPatternCalls ==
  {[fn |-> "detectChunkPattern", args |-> <<cv, delays>>, ret |-> <<>>] :
     cv \in CVs, delays \in SeqsUpTo(DelayValues, MaxLen) \cup {TenDelays(3), TenDelays(4)}}

detectBufferingCalls ==
  {[fn |-> "detectBuffering",
    args |-> <<[NewBufferingAnalysis(NewStreamMetrics) EXCEPT
                  !.TimeToFirstByte = ttfb, !.ChunkPattern = pattern,
                  !.FirstChunkGap = gap, !.ChunkTimingCV = cv],
               [NewStreamMetrics EXCEPT !.TotalChunks = chunks]>>,
    ret |-> <<>>] :
     ttfb \in {0, 500 * Millisecond, 500 * Millisecond + 1, Second, Second + 1},
     pattern \in {"steady", "moderate", "burst", "stalled", "insufficient_data"},
     gap \in {0, Second, Second + 1},
     cv \in {Sqrt(0, 1), Sqrt(9, 100), Sqrt(225, 100)},
     chunks \in {0, 1, 2, 5}}

calculateConfidenceCalls ==
  {[fn |-> "calculateConfidence",
    args |-> <<[NewBufferingAnalysis(NewStreamMetrics) EXCEPT
                  !.ChunkPattern = pattern, !.BufferingDetected = buffering],
               [NewStreamMetrics EXCEPT !.TotalChunks = chunks]>>,
    ret |-> <<>>] :
     pattern \in {"", "steady", "moderate", "burst", "stalled", "insufficient_data"},
     buffering \in BOOLEAN,
     chunks \in {0, 1, 2, 4, 5, 9, 10, 15}}

\* what one Read adds to the timeline: the chunk's size and the time since
\* the chunk before it
ChunkSteps ==
  [Size : {1, 2},
   gap : {0, StallThreshold, StallThreshold + 1, 700 * Millisecond, 1100 * Millisecond}]

\* five chunks: the first after ttfb, the second 1.1 s later, the rest at once
LateThenBurst(ttfb) ==
  [i \in 1..5 |->
     [Size |-> 1, gap |-> IF i = 1 THEN ttfb ELSE IF i = 2 THEN 1100 * Millisecond ELSE 0]]

\* the []ChunkTiming a series of such reads leaves
ChunkTimingsOf(steps) ==
  [i \in 1..Len(steps) |->
     [SequenceNumber |-> i - 1, Size |-> steps[i].Size,
      ElapsedTime |-> SumSeq([k \in 1..i |-> steps[k].gap])]]

DetectStallsCalls ==
  {[fn |-> "DetectStalls",
    args |-> <<[NewStreamMetrics EXCEPT !.ChunkTimings = ChunkTimingsOf(steps)], threshold>>,
    ret |-> <<>>] :
     steps \in SeqsUpTo(ChunkSteps, MaxLen), threshold \in {0, StallThreshold}}

\* the report Metrics() returns for such a timeline
AnalyzeBufferingCalls ==
  {[fn |-> "AnalyzeBuffering",
    args |-> <<[NewStreamMetrics EXCEPT
                  !.ChunkTimings = ChunkTimingsOf(steps),
                  !.TotalChunks = Len(steps),
                  !.FirstChunkTime = IF Len(steps) > 0 THEN steps[1].gap ELSE 0,
                  !.LastChunkTime = SumSeq([k \in 1..Len(steps) |-> steps[k].gap])]>>,
    ret |-> <<>>] :
     steps \in SeqsUpTo(ChunkSteps, MaxLen)
                 \cup {LateThenBurst(200 * Millisecond), LateThenBurst(1100 * Millisecond)}}

Calls ==
  percentileCalls \cup detectChunkPatternCalls \cup detectBufferingCalls
    \cup calculateConfidenceCalls \cup DetectStallsCalls \cup AnalyzeBufferingCalls

ApplyUnchanged ==
  /\ UNCHANGED <<pc, cur, ops, nextPtr, history>>
  /\ UNCHANGED collectorVars
  /\ UNCHANGED loadVars
  /\ UNCHANGED <<sr, metrics, reads, snapshot, streamMetrics, resp>>

Return(v) == call' = [call EXCEPT !.ret = <<v>>]

Apply_percentile ==
  /\ call.fn = "percentile"
  /\ call.ret = <<>>
  /\ Return(percentile(call.args[1], call.args[2], call.args[3]))
  /\ ApplyUnchanged

Apply_detectChunkPattern ==
  /\ call.fn = "detectChunkPattern"
  /\ call.ret = <<>>
  /\ Return(detectChunkPattern(call.args[1], call.args[2]))
  /\ ApplyUnchanged

Apply_detectBuffering ==
  /\ call.fn = "detectBuffering"
  /\ call.ret = <<>>
  /\ Return(detectBuffering(call.args[1], call.args[2]))
  /\ ApplyUnchanged

Apply_calculateConfidence ==
  /\ call.fn = "calculateConfidence"
  /\ call.ret = <<>>
  /\ Return(calculateConfidence(call.args[1], call.args[2]))
  /\ ApplyUnchanged

Apply_DetectStalls ==
  /\ call.fn = "DetectStalls"
  /\ call.ret = <<>>
  /\ Return(DetectStalls(call.args[1], call.args[2]))
  /\ ApplyUnchanged

Apply_AnalyzeBuffering ==
  /\ call.fn = "AnalyzeBuffering"
  /\ call.ret = <<>>
  /\ Return(AnalyzeBuffering(call.args[1]))
  /\ ApplyUnchanged

InitFunc ==
  /\ InitIdle("apply")
  /\ call \in Calls
  /\ sr = NoReader
  /\ metrics = Nil
  /\ reads = <<>>
  /\ snapshot = Nil
  /\ streamMetrics = Nil
  /\ resp = Nil

FuncNext ==
  \/ Apply_percentile
  \/ Apply_detectChunkPattern
  \/ Apply_detectBuffering
  \/ Apply_calculateConfidence
  \/ Apply_DetectStalls
  \/ Apply_AnalyzeBuffering

FuncSpec == InitFunc /\ [][FuncNext]_vars

\* ------------------------------------------------------------------ claims
JobIDs == 0..(MaxJobs - 1)
Started == 1..config.Concurrency
RecordPCs == {"Record", "RecordRead", "RecordWrite", "RecordUnlock"}
\* the statements whose next step reads or writes timings, startTime or endTime
AccessPCs == {"RecordRead", "RecordWrite", "FinalizeWrite", "CalculateBody", "ResetBody"}
InQueue(j) == Cardinality({i \in 1..Len(jobs) : jobs[i].id = j})
Held(j) == Cardinality({w \in Workers : pc[w] = "MeasureRequest" /\ job[w].id = j})
Stored(p) == Cardinality({i \in 1..Len(timings) : timings[i].ptr = p})
RunLoadReturned == IsLoadRun /\ pc[Main] = "done" /\ result # "no URLs provided"

\* C1: in a load run every job sent to the channel is, at every moment, either
\* still queued, or held by exactly one worker that has not measured it yet, or
\* measured exactly once; a job that was not sent is never measured; and when
\* runLoad returns with concurrency >= 1 every one of the Requests x len(URLs)
\* jobs has been measured exactly once.
C1_EachJobExactlyOnce ==
  IsLoadRun =>
    /\ \A j \in JobIDs :
         IF j < jobID
         THEN InQueue(j) + Held(j) + measured[j] = 1
         ELSE measured[j] = 0
    /\ (RunLoadReturned /\ config.Concurrency >= 1) =>
         \A j \in JobIDs : j < TotalRequests => measured[j] = 1

C1_Witness ==
  /\ RunLoadReturned
  /\ config.Concurrency >= 2
  /\ TotalRequests >= 3
  /\ \A j \in JobIDs : j < TotalRequests => measured[j] = 1
  /\ nextPtr[1] > 1
  /\ nextPtr[2] > 1

\* C2: in a load run with concurrency >= 1, the Stats that Calculate returns
\* count one sample per job: TotalRequests = Requests x len(URLs), whatever
\* each request's outcome.
C2_EveryJobRecorded ==
  (IsLoadRun /\ config.Concurrency >= 1 /\ stats[Main] # NoResult) =>
    stats[Main].stats.TotalRequests = TotalRequests

\* C3: for Requests >= 1 and a non-empty URL list (and concurrency >= 1), when
\* Run returns nil every listed URL has been requested Requests times.
C3_EveryURLRequested ==
  (config # NoConfig /\ pc[Main] = "done" /\ result = "nil" /\ config.Requests >= 1
     /\ Len(config.URLs) >= 1 /\ config.Concurrency >= 1) =>
    \A k \in 1..Len(config.URLs) : issued[k] = config.Requests

\* C4: a load run with concurrency <= 0 sends no job to the channel, measures
\* none, and does not return nil.
C4_NonPositiveConcurrencyRejected ==
  (IsLoadRun /\ config.Concurrency <= 0) =>
    /\ jobID = 0
    /\ Len(jobs) = 0
    /\ ~(pc[Main] = "done" /\ result = "nil")

\* C5: in a load run, from the moment Wait has returned (Finalize is about to
\* be called, is running or has run) every started worker has exited, so no
\* Record is running or can start; and Calculate has run only if Finalize has
\* set endTime before.
C5_FinalizeAfterWorkers ==
  IsLoadRun =>
    /\ (pc[Main] \in {"Finalize", "FinalizeWrite", "Calculate", "CalculateBody",
                      "CalculateUnlock", "WriteMultiple"} \/ RunLoadReturned) =>
         \A w \in Started : pc[w] = "exited"
    /\ endTime # ZeroTime => \A w \in Started : pc[w] = "exited"
    /\ (pc[Main] \in {"CalculateBody", "CalculateUnlock"} \/ stats[Main] # NoResult) =>
         endTime # ZeroTime

C5_Witness ==
  /\ IsLoadRun
  /\ pc[Main] = "WriteMultiple"
  /\ config.Concurrency >= 2
  /\ Len(timings) >= 3
  /\ endTime # ZeroTime

\* C6: in a load run a sample that carries a transport error is recorded like
\* any other (the worker holding it is in Record, or it is stored once in the
\* collector), the worker goes on with the queue, and when runLoad returns with
\* concurrency >= 1 every job has been measured, every failed sample is counted
\* in FailedRequests, and the error returned is nil or the formatter's.
C6_FailuresDoNotAbort ==
  IsLoadRun =>
    /\ \A w \in Workers :
         (cur[w] # Nil /\ cur[w].Error # "") => pc[w] \in RecordPCs
    /\ \A p \in history.failed :
         \/ Stored(p) = 1
         \/ \E w \in Workers : pc[w] \in RecordPCs /\ cur[w] # Nil /\ cur[w].ptr = p
    /\ \A w \in Workers :
         pc[w] = "exited" => closed /\ Len(jobs) = 0
    /\ (RunLoadReturned /\ config.Concurrency >= 1) =>
         /\ \A j \in JobIDs : j < TotalRequests => measured[j] = 1
         /\ stats[Main].stats.FailedRequests = Cardinality(history.failed)
         /\ result \in {"nil", "failed to format output"}

C6_Witness ==
  /\ RunLoadReturned
  /\ result = "nil"
  /\ config.Concurrency = 1
  /\ TotalRequests >= 2
  /\ Len(timings) = TotalRequests
  /\ timings[1].Error # ""
  /\ stats[Main].stats.FailedRequests = TotalRequests

\* C7: under fair scheduling every run ends: Run returns, and when it was a
\* load run with concurrency >= 1 every job has been measured, every started
\* worker has exited, and Finalize and Calculate have run.
C7_RunTerminates ==
  <>(/\ pc[Main] = "done"
     /\ (IsLoadRun /\ config.Concurrency >= 1 /\ Len(config.URLs) >= 1) =>
          /\ \A j \in JobIDs : j < TotalRequests => measured[j] = 1
          /\ \A w \in Started : pc[w] = "exited"
          /\ endTime # ZeroTime
          /\ stats[Main] # NoResult)

\* a worker that never got a job
C7_Witness ==
  /\ RunLoadReturned
  /\ config.Concurrency = 2
  /\ TotalRequests >= 2
  /\ \A w \in Started : pc[w] = "exited"
  /\ \E w \in Started : nextPtr[w] = 1
  /\ Len(timings) = TotalRequests

\* C8: as long as Reset has not been called, every sample whose Record has
\* returned is stored exactly once, every stored sample is one whose Record
\* has returned or is about to, and when no Record is running the number of
\* stored samples is the number of Record calls made.
C8_RecordKeepsEverySample ==
  (config = NoConfig /\ history.resets = 0) =>
    /\ \A p \in history.recorded : Stored(p) = 1
    /\ \A i \in 1..Len(timings) :
         \/ timings[i].ptr \in history.recorded
         \/ \E t \in Procs : pc[t] = "RecordUnlock" /\ cur[t].ptr = timings[i].ptr
    /\ (\A t \in Procs : pc[t] \notin RecordPCs) =>
         Len(timings) = Cardinality(history.recorded)

C8_Witness ==
  /\ config = NoConfig
  /\ history.resets = 0
  /\ Cardinality(history.recorded) = 3
  /\ Len(timings) = 3
  /\ \E t \in Procs, u \in Procs :
       /\ t # u
       /\ pc[t] = "Record"
       /\ timings[1].ptr[1] = t
       /\ timings[2].ptr[1] = u
       /\ timings[3].ptr[1] = t

\* C9: a goroutine about to read or write timings, startTime or endTime inside
\* Record, Finalize, Calculate or Reset holds the lock, and no two goroutines
\* are at such an access at the same time.
C9_AccessUnderLock ==
  config = NoConfig =>
    /\ \A t \in Procs : pc[t] \in AccessPCs => mu = t
    /\ \A t \in Procs, u \in Procs :
         (t # u /\ pc[t] \in AccessPCs) => pc[u] \notin AccessPCs

\* C10: a Calculate that finds no samples returns the zero Stats and does not
\* panic, whether or not endTime has been set.
C10_EmptyCalculateIsZero ==
  \A t \in Procs :
    (pc[t] = "CalculateUnlock" /\ Len(timings) = 0) =>
      /\ ~stats[t].panic
      /\ stats[t].stats = ZeroStats
      /\ stats[t].stats.TotalRequests = 0

C10_Witness ==
  /\ config = NoConfig
  /\ endTime = ZeroTime
  /\ Len(timings) = 0
  /\ \E t \in Procs : pc[t] = "CalculateUnlock" /\ stats[t] = Returned(ZeroStats)

Applied(fn) == call.fn = fn /\ call.ret # <<>>

\* the goroutines whose Calculate has filled in its Stats and is about to return
Calculated == {t \in Procs : pc[t] = "CalculateUnlock" /\ ~stats[t].panic}

\* the sum of the values of a map
RECURSIVE SumMap(_)
SumMap(m) ==
  IF DOMAIN m = {} THEN 0
  ELSE LET k == CHOOSE x \in DOMAIN m : TRUE
       IN  m[k] + SumMap([x \in DOMAIN m \ {k} |-> m[x]])

\* C11: for every non-empty sorted list and every p, percentile returns the
\* reference value: the first element for p <= 0, the last for p >= 100,
\* otherwise the interpolation between the values at floor(idx) and ceil(idx)
\* weighted by the fractional part of idx = (p/100)*(n-1); percentile(0) is the
\* minimum, percentile(100) the maximum, and a one-element list returns its
\* element for every p.
C11_PercentileIsReference ==
  (Applied("percentile") /\ Len(call.args[1]) > 0) =>
    LET sorted == call.args[1]
        pNum == call.args[2]
        pDen == call.args[3]
        n == Len(sorted)
        \* idx = (p/100)*(n-1) as the fraction a/b
        a == pNum * (n - 1)
        b == 100 * pDen
        floorIdx == a \div b
        ceilIdx == IF a % b = 0 THEN floorIdx ELSE floorIdx + 1
        lo == sorted[floorIdx + 1]
        hi == sorted[ceilIdx + 1]
        reference == IF pNum <= 0 THEN sorted[1]
                     ELSE IF pNum >= 100 * pDen THEN sorted[n]
                     ELSE lo + (((hi - lo) * (a % b)) \div b)
    IN  /\ call.ret[1] = reference
        /\ pNum = 0 => call.ret[1] = sorted[1]
        /\ pNum = 100 * pDen => call.ret[1] = sorted[n]
        /\ n = 1 => call.ret[1] = sorted[1]
        /\ sorted[1] <= call.ret[1] /\ call.ret[1] <= sorted[n]

\* p = 75 over three distinct values falls half way between the last two
C11_Witness ==
  /\ Applied("percentile")
  /\ call.args = <<<<0, 1500, 10 * Millisecond>>, 75, 1>>
  /\ call.ret[1] = 5750

\* C12: in the Stats Calculate returns, the histogram has a bucket for every
\* sample's floor(latency_ms / 10) and no other, each bucket counts exactly the
\* samples that fall in it, and the counts sum to TotalRequests.
C12_HistogramCountsEverySample ==
  \A t \in Calculated :
    LET h == stats[t].stats.Histogram
        n == Len(timings)
        BucketOf(i) == timings[i].Total \div (10 * 1000)
    IN  /\ \A i \in 1..n : BucketOf(i) \in DOMAIN h
        /\ \A b \in DOMAIN h : h[b] = Cardinality({i \in 1..n : BucketOf(i) = b}) /\ h[b] > 0
        /\ SumMap(h) = stats[t].stats.TotalRequests
        /\ stats[t].stats.TotalRequests = n

\* latencies just below and exactly at the 10 ms boundary, and one at 25 ms
C12_Witness ==
  /\ Calculated # {}
  /\ Len(timings) = 3
  /\ {timings[i].Total : i \in 1..3} = {9999, 10000, 25000}
  /\ \E t \in Calculated : stats[t].stats.Histogram = (0 :> 1) @@ (1 :> 1) @@ (2 :> 1)

\* C13: in the Stats Calculate returns, the failed samples are exactly those
\* with error text, whatever their status code; successful and failed add up
\* to the total; the status-code map counts the successful samples per code,
\* has no entry that only failed samples would give, and sums to
\* SuccessfulRequests.
C13_FailedIffErrorText ==
  \A t \in Calculated :
    LET st == stats[t].stats
        n == Len(timings)
        withError == {i \in 1..n : timings[i].Error # ""}
        without == (1..n) \ withError
    IN  /\ st.FailedRequests = Cardinality(withError)
        /\ st.SuccessfulRequests = Cardinality(without)
        /\ st.SuccessfulRequests + st.FailedRequests = st.TotalRequests
        /\ DOMAIN st.StatusCodes = {timings[i].StatusCode : i \in without}
        /\ \A c \in DOMAIN st.StatusCodes :
             st.StatusCodes[c] = Cardinality({i \in without : timings[i].StatusCode = c})
        /\ SumMap(st.StatusCodes) = st.SuccessfulRequests

\* a 500 without error text counted as successful, next to a 200 whose body
\* read failed and a refused connection, both counted as failed
C13_Witness ==
  /\ Len(timings) = 3
  /\ \E i \in 1..3 : timings[i].StatusCode = 500 /\ timings[i].Error = ""
  /\ \E i \in 1..3 : timings[i].StatusCode = 200 /\ timings[i].Error # ""
  /\ \E i \in 1..3 : timings[i].StatusCode = 0 /\ timings[i].Error # ""
  /\ \E t \in Calculated :
       /\ stats[t].stats.StatusCodes = (500 :> 1)
       /\ stats[t].stats.FailedRequests = 2
       /\ stats[t].stats.SuccessfulRequests = 1

\* C14: for a non-empty sample set Calculate fills in p50, p90, p95 and p99;
\* P999 is the 99.9th percentile when there are at least 1000 samples and 0
\* below that; P9999 is the 99.99th percentile when there are at least 10000
\* samples and 0 below that.
C14_ExtendedPercentileThresholds ==
  \A t \in Calculated :
    Len(timings) > 0 =>
      \A sorted \in {SortAsc(collected) :
                       collected \in {[i \in 1..Len(timings) |-> timings[i].Total]}} :
        LET st == stats[t].stats
            n == Len(timings)
        IN  /\ st.P50 = percentile(sorted, 50, 1)
            /\ st.P90 = percentile(sorted, 90, 1)
            /\ st.P95 = percentile(sorted, 95, 1)
            /\ st.P99 = percentile(sorted, 99, 1)
            /\ st.P999 = IF n >= 1000 THEN percentile(sorted, 999, 10) ELSE 0
            /\ st.P9999 = IF n >= 10000 THEN percentile(sorted, 9999, 100) ELSE 0
            /\ n >= 1000 => st.P999 > 0
            /\ n >= 10000 => st.P9999 > 0

\* exactly 1000 samples: p99.9 is interpolated between the two slowest, and
\* p99.99 is left at zero
C14_Witness ==
  /\ Len(timings) = 1000
  /\ \E t \in Calculated :
       /\ stats[t].stats.P999 = 10015
       /\ stats[t].stats.P9999 = 0

\* the read results that delivered bytes
HasBytes(r) == r.n > 0

\* C15: the chunk list of a StreamingReader has one entry per underlying read
\* that returned n > 0 bytes, with or without an error, in read order: entry i
\* (from 0) has sequence number i and size n of the i-th such read, and the
\* entries' times do not decrease; reads of 0 bytes add nothing.
C15_OneChunkPerNonEmptyRead ==
  (metrics # Nil /\ ~Piped) =>
    LET chunks == metrics.ChunkTimings
        delivered == SelectSeq(reads, HasBytes)
    IN  /\ Len(chunks) = Len(delivered)
        /\ sr.chunkNumber = Len(chunks)
        /\ \A i \in 1..Len(chunks) :
             /\ chunks[i].SequenceNumber = i - 1
             /\ chunks[i].Size = delivered[i].n
        /\ \A i \in 1..(Len(chunks) - 1) : chunks[i].ElapsedTime <= chunks[i + 1].ElapsedTime

\* two bytes, then an empty read, then one byte together with end-of-stream
C15_Witness ==
  /\ ~Piped
  /\ reads = <<[n |-> 2, err |-> ""], [n |-> 0, err |-> ""], [n |-> 1, err |-> "EOF"]>>
  /\ Len(metrics.ChunkTimings) = 2
  /\ metrics.ChunkTimings[2].SequenceNumber = 1
  /\ metrics.ChunkTimings[2].Size = 1

\* C16: the report as Metrics() returns it has TotalChunks = the number of
\* chunk entries, TotalBytes = the sum of their sizes = the bytes the underlying
\* reader has delivered, AverageChunkSize = TotalBytes / TotalChunks rounded
\* down (0 without chunks), FirstChunkTime and LastChunkTime = the elapsed times
\* of the first and the last chunk (0 without chunks), and LastChunkTime >=
\* FirstChunkTime.
C16_MetricsTotals ==
  (snapshot # Nil /\ ~Piped) =>
    LET chunks == snapshot.ChunkTimings
        n == Len(chunks)
        sizes == SumSeq([i \in 1..n |-> chunks[i].Size])
    IN  /\ snapshot.TotalChunks = n
        /\ snapshot.TotalBytes = sizes
        /\ snapshot = metrics => snapshot.TotalBytes = SumSeq([i \in 1..Len(reads) |-> reads[i].n])
        /\ snapshot.AverageChunkSize = IF n = 0 THEN 0 ELSE sizes \div n
        /\ snapshot.FirstChunkTime = IF n = 0 THEN 0 ELSE chunks[1].ElapsedTime
        /\ snapshot.LastChunkTime = IF n = 0 THEN 0 ELSE chunks[n].ElapsedTime
        /\ snapshot.LastChunkTime >= snapshot.FirstChunkTime

\* three bytes in two chunks: the average is 1
C16_Witness ==
  /\ ~Piped
  /\ snapshot # Nil
  /\ snapshot.TotalChunks = 2
  /\ snapshot.TotalBytes = 3
  /\ snapshot.AverageChunkSize = 1
  /\ snapshot.LastChunkTime > snapshot.FirstChunkTime
  /\ snapshot.FirstChunkTime > 0

\* C17: once Metrics() has returned, the report behind the returned pointer
\* keeps the chunk list, LastChunkTime, TotalChunks and TotalBytes it was
\* returned with, and its TotalChunks stays the length of its chunk list,
\* whatever Read or Metrics calls follow.
C17_ReportImmutable ==
  (snapshot # Nil /\ ~Piped) =>
    /\ metrics.ChunkTimings = snapshot.ChunkTimings
    /\ metrics.LastChunkTime = snapshot.LastChunkTime
    /\ metrics.TotalChunks = snapshot.TotalChunks
    /\ metrics.TotalBytes = snapshot.TotalBytes
    /\ metrics.TotalChunks = Len(metrics.ChunkTimings)

\* MeasureRequestWithStreaming has returned a report
Reported == pc[Main] = "StreamMeasured" /\ streamMetrics # Nil

C19_PatternByCV ==
  Applied("detectChunkPattern") =>
    LET cv == call.args[1]
        delays == call.args[2]
        pattern == call.ret[1]
        long == Cardinality({i \in 1..Len(delays) : delays[i] > 500})
        below03 == cv.sqNum * 100 < 9 * cv.sqDen
        below07 == cv.sqNum * 100 < 49 * cv.sqDen
        manyLong == Len(delays) > 0 /\ 10 * long > 3 * Len(delays)
    IN  /\ pattern \in {"steady", "moderate", "stalled", "burst"}
        /\ below03 => pattern = "steady"
        /\ (~below03 /\ below07) => pattern = "moderate"
        /\ (~below07 /\ manyLong) => pattern = "stalled"
        /\ (~below07 /\ ~manyLong) => pattern = "burst"

\* CV = 1.5 and four of ten delays above 500 ms
C19_Witness ==
  /\ Applied("detectChunkPattern")
  /\ call.args[1] = Sqrt(225, 100)
  /\ call.args[2] = TenDelays(4)
  /\ call.ret[1] = "stalled"

C21_TwoChunksLowConfidence ==
  (Applied("calculateConfidence") /\ call.args[2].TotalChunks = 2) =>
    (5 <= call.ret[1] /\ call.ret[1] <= 7)

C23_StallPerLongGap ==
  Applied("DetectStalls") =>
    LET chunks == call.args[1].ChunkTimings
        threshold == call.args[2]
        stalls == call.ret[1]
        Gap(i) == chunks[i + 1].ElapsedTime - chunks[i].ElapsedTime
        long == {i \in 1..(Len(chunks) - 1) : Gap(i) > threshold}
        Rank(i) == Cardinality({j \in long : j <= i})
        Before(i) == {k \in 1..Len(chunks) : k < i}
        Bytes(S) == SumSeq([k \in 1..Len(chunks) |-> IF k \in S THEN chunks[k].Size ELSE 0])
    IN  /\ Len(stalls) = Cardinality(long)
        /\ \A i \in long :
             /\ stalls[Rank(i)].StartTime = chunks[i].ElapsedTime
             /\ stalls[Rank(i)].EndTime = chunks[i + 1].ElapsedTime
             /\ stalls[Rank(i)].Duration = Gap(i)
             /\ stalls[Rank(i)].Position = Bytes(Before(i))
        /\ \A k \in 1..Len(stalls) : stalls[k].Duration > threshold
        /\ Len(chunks) <= 1 => stalls = <<>>

\* three chunks, a short gap and then a long one: one stall, after the first chunk's bytes
C23_Witness ==
  /\ Applied("DetectStalls")
  /\ call.args[2] = StallThreshold
  /\ Len(call.args[1].ChunkTimings) = 3
  /\ call.args[1].ChunkTimings[1].Size = 2
  /\ Len(call.ret[1]) = 1
  /\ call.ret[1][1].Duration = StallThreshold + 1
  /\ call.ret[1][1].StartTime = call.args[1].ChunkTimings[2].ElapsedTime
  /\ call.ret[1][1].Position = 2

\* C24: with at least 2 chunks and all inter-chunk delays equal, the analysis
\* has StdDevDelay = 0, CV = 0 and pattern "steady"; whenever MeanDelay = 0 the
\* CV is 0; and MinDelay <= MeanDelay <= MaxDelay.
C24_EqualDelaysAreSteady ==
  (Applied("AnalyzeBuffering") /\ Len(call.args[1].ChunkTimings) >= 2) =>
    LET chunks == call.args[1].ChunkTimings
        analysis == call.ret[1]
        DelayMs(i) == (chunks[i + 1].ElapsedTime - chunks[i].ElapsedTime) \div 1000
        pairs == 1..(Len(chunks) - 1)
        allEqual == \A i, j \in pairs : DelayMs(i) = DelayMs(j)
    IN  /\ allEqual =>
             /\ analysis.StdDevDelay.sqNum = 0
             /\ analysis.ChunkTimingCV.sqNum = 0
             /\ analysis.ChunkPattern = "steady"
        /\ analysis.MeanDelay.num = 0 => analysis.ChunkTimingCV.sqNum = 0
        /\ analysis.MinDelay * analysis.MeanDelay.den <= analysis.MeanDelay.num
        /\ analysis.MeanDelay.num <= analysis.MaxDelay * analysis.MeanDelay.den

\* three chunks 700 ms apart
C24_Witness ==
  /\ Applied("AnalyzeBuffering")
  /\ Len(call.args[1].ChunkTimings) = 3
  /\ call.ret[1].MinDelay = 700
  /\ call.ret[1].MaxDelay = 700
  /\ call.ret[1].StdDevDelay.sqNum = 0
  /\ call.ret[1].ChunkPattern = "steady"

\* C25: with --expect-streaming, a single-request run returns success only if
\* there is a buffering analysis with a determined pattern (at least 2 chunks
\* were observed), buffering was not detected and the response headers
\* indicate that streaming is likely.
C25_ExpectStreamingNeedsStreaming ==
  (pc[Main] = "done" /\ config.ExpectStreaming /\ result = "nil") =>
    /\ metrics # Nil
    /\ metrics.BufferingAnalysis # Nil
    /\ metrics.BufferingAnalysis.ChunkPattern # "insufficient_data"
    /\ metrics.TotalChunks >= 2
    /\ ~metrics.BufferingAnalysis.BufferingDetected
    /\ metrics.StreamingInfo.IsStreamingLikely

\* C26: when Reset returns the collector is as NewCollector left it: no
\* samples, and endTime unset until the next Finalize.
C26_ResetGivesFreshCollector ==
  [][(pc[Main] = "ResetUnlock" /\ pc'[Main] = "idle") =>
       (timings' = <<>> /\ endTime' = ZeroTime)]_vars

\* C27: the Stats Calculate returns are those of any other order of the same
\* recorded samples, apart from the time window, and Calculate leaves the
\* stored samples as they are.
C27_StatsIgnoreRecordOrder ==
  [][\A t \in Procs :
       (pc[t] = "CalculateBody" /\ pc'[t] = "CalculateUnlock") =>
         LET NoWindow(st) == [st EXCEPT !.Duration = 0, !.RequestsPerSecond = Ratio(0, 1),
                                        !.BytesPerSecond = Ratio(0, 1)]
             Reordered(p) == [i \in 1..Len(timings) |-> timings[p[i]]]
         IN  /\ timings' = timings
             /\ \A p \in Permutations(1..Len(timings)) :
                  NoWindow(stats'[t].stats)
                    = NoWindow(CalculateStats(Reordered(p), startTime, endTime).stats)]_vars

\* a Calculate has returned on samples recorded slowest first
C27_Witness ==
  \E t \in Calculated :
    /\ Len(timings) >= 2
    /\ timings[1].Total > timings[2].Total
    /\ stats[t].stats.TotalRequests = Len(timings)
    /\ stats[t].stats.MinLatency = timings[2].Total

\* C28: during a load run at most `concurrency` measure calls are in progress
\* (none when concurrency is not positive): exactly that many workers are
\* started, each with one request at a time; and while a worker is inside a
\* measure call, any idle worker can still take the next queued job.
C28_ConcurrencyCap ==
  IsLoadRun =>
    LET cap == IF config.Concurrency > 0 THEN config.Concurrency ELSE 0
        started == {w \in Workers : pc[w] # "notstarted"}
        measuring == {w \in Workers : pc[w] \in {"MeasureRequest", "Do"}}
    IN  /\ Cardinality(measuring) <= cap
        /\ Cardinality(started) <= cap
        /\ (pc[Main] \notin {"Run", "runLoad", "StartWorkers"} /\ result # "no URLs provided")
             => Cardinality(started) = cap
        /\ \A w \in measuring : job[w] # NoJob
        /\ \A w \in measuring : \A v \in Workers \ {w} :
             (pc[v] = "range" /\ Len(jobs) > 0) => ENABLED Receive(v)

\* one worker inside a measure call, the other idle with a job queued
C28_Witness ==
  /\ IsLoadRun
  /\ config.Concurrency = 2
  /\ pc[1] = "Do"
  /\ pc[2] = "range"
  /\ Len(jobs) > 0

\* C29: for a report with TotalChunks = number of chunks >= 2, BufferingDetected
\* implies that the gap between the first two chunks is above 1 s, that
\* TimeToFirstByte is above 500 ms and that the pattern is "steady" or "burst";
\* a response classified "moderate" or "stalled" is never reported as buffered.
C29_BufferedNeedsLateFirstGap ==
  (/\ Applied("AnalyzeBuffering")
   /\ Len(call.args[1].ChunkTimings) >= 2
   /\ call.args[1].TotalChunks = Len(call.args[1].ChunkTimings)) =>
    LET m == call.args[1]
        analysis == call.ret[1]
    IN  /\ analysis.BufferingDetected =>
             /\ m.ChunkTimings[2].ElapsedTime - m.ChunkTimings[1].ElapsedTime > 1000000
             /\ m.FirstChunkTime > 500000
             /\ analysis.TimeToFirstByte = m.FirstChunkTime
             /\ analysis.ChunkPattern \in {"steady", "burst"}
        /\ analysis.ChunkPattern \in {"moderate", "stalled"} => ~analysis.BufferingDetected

\* a late first chunk, a long first gap, then a burst: reported as buffered
C29_Witness ==
  /\ Applied("AnalyzeBuffering")
  /\ call.args[1].TotalChunks = 5
  /\ call.ret[1].ChunkPattern = "burst"
  /\ call.ret[1].BufferingDetected

\* C30: in every stream report the pipeline produces, the stall summary of the
\* BufferingAnalysis agrees with the stall list: StallCount is the number of
\* entries of Stalls and TotalStallTime the sum of their durations.
C30_StallSummaryMatchesStalls ==
  (/\ pc[Main] = "StreamMeasured"
   /\ streamMetrics # Nil
   /\ metrics.BufferingAnalysis # Nil) =>
    /\ metrics.BufferingAnalysis.StallCount = Len(metrics.Stalls)
    /\ metrics.BufferingAnalysis.TotalStallTime
         = SumSeq([i \in 1..Len(metrics.Stalls) |-> metrics.Stalls[i].Duration])

====
